---------------------------- MODULE Spec2Model ----------------------------
(***************************************************************************)
(* Neutral Summarizer: the streaming response pipeline of the three stream *)
(* consumers (SidebarManager in src/content.js, ChatComponent in           *)
(* sidebar/components/chat-component.js, APIClient in utils/api-client.js)  *)
(* and the turn orchestration around them; SidebarManager's visibility and  *)
(* settings form, PDFHandler's cache and BackgroundService's message        *)
(* handler.                                                                 *)
(*                                                                          *)
(* Specifications: SpecStream and SpecPadded (one response body through a   *)
(* consumer), SpecSidebar (SidebarManager's turns and visibility), SpecChat *)
(* and FairSpecChat (ChatComponent's turns), SpecSettings (settings form,   *)
(* store and request), SpecPdf (PDFHandler), SpecBackground.                *)
(*                                                                          *)
(* Text is a sequence of units.  A unit is one byte of the response body,   *)
(* or a fixed run of bytes that the code never looks into:                  *)
(*   "D"      the five bytes  data:                                         *)
(*   " "      a space                                                       *)
(*   "NL"     the line feed the code splits on                              *)
(*   "[DONE]" the six bytes of the sentinel                                 *)
(*   "{"      the JSON text  {"choices":[{"delta":{"content":"              *)
(*   "}"      the JSON text  "}}]}                                          *)
(*   "a"      a one-byte character of a content string                      *)
(*   "E1","E2" the lead and the continuation byte of one two-byte UTF-8     *)
(*            character, which decodes to the character "e'"                *)
(*   ":"      the first byte of an SSE comment line                         *)
(* "?" is U+FFFD, which only the decoder produces.                          *)
(***************************************************************************)
EXTENDS Integers, Sequences, FiniteSets, TLC

(***************************************************************************)
(* Bounds of the model.                                                     *)
(***************************************************************************)
MaxLines == 3
\* Turns started in one run of the sidebar, and reads of one turn's body.
MaxTurns == 2
MaxReads == 2
\* Calls of convertPDFToMarkdown in one run, and how far the clock goes, in
\* steps of ten minutes.
MaxCalls == 2
MaxClock == 4
\* Messages the background script is given in one run.
MaxMessages == 2

VARIABLES
    kind,       \* which stream consumer runs: "sidebar", "chat" or "api"
    stream,     \* the bytes of the response body, in order
    pos,        \* how many of them read() has handed out so far
    rs,         \* the reader: "open", "closed" (read() reported done) or
                \* "errored" (read() rejected)
    fragmented, \* whether some fragment handed out so far ended inside a line
    st,         \* the consumer's locals and what it has shown
    \* SidebarManager (src/content.js)
    isVisible,    \* this.isVisible
    storage,      \* what chrome.storage.sync holds of the settings
    chatMessages, \* the children of #neutral-summarizer-chat-messages
    turns,        \* the turns started so far, each with its position
    \* ChatComponent (sidebar/components/chat-component.js)
    settings,            \* this.settings
    isGenerating,        \* this.isGenerating
    currentConversation, \* this.currentConversation
    chatDom,             \* the children of this.chatMessages
    chatTurns,           \* the turns started so far, each with its position
    \* SidebarManager's elements in the page (src/content.js)
    sidebarContainer, \* this.sidebarContainer
    overlay,          \* this.overlay
    appended,         \* how many of each document.body has been given
    \* SidebarManager's settings form and what a request carries of it
    form,             \* the values of the form's fields
    sent,             \* the settings part of the last request's body
    \* PDFHandler (src/content.js and src/utils/api-client.js)
    pdfHandler,       \* which of the two classes runs
    pdfCache,         \* this.pdfCache
    now,              \* Date.now(), in steps of ten minutes
    pdfCalls,         \* the calls of convertPDFToMarkdown so far
    \* BackgroundService (src/background.js)
    received          \* the messages handleMessage was given so far

streamVars == <<kind, stream, pos, rs, fragmented, st>>
sidebarVars == <<isVisible, storage, chatMessages, turns>>
chatVars == <<settings, isGenerating, currentConversation, chatDom, chatTurns>>
pageVars == <<sidebarContainer, overlay, appended>>
formVars == <<form, sent>>
pdfVars == <<pdfHandler, pdfCache, now, pdfCalls>>
backgroundVars == <<received>>
idleVars == <<formVars, pdfVars, backgroundVars>>
vars == <<kind, stream, pos, rs, fragmented, st,
          isVisible, storage, chatMessages, turns,
          settings, isGenerating, currentConversation, chatDom, chatTurns,
          sidebarContainer, overlay, appended, form, sent,
          pdfHandler, pdfCache, now, pdfCalls, received>>

(***************************************************************************)
(* Strings                                                                  *)
(***************************************************************************)
RECURSIVE Concat(_)
Concat(ss) == IF ss = <<>> THEN <<>> ELSE Head(ss) \o Concat(Tail(ss))

IsPrefix(s, t) == Len(s) <= Len(t) /\ SubSeq(t, 1, Len(s)) = s

\* String.prototype.split('\n'): the pieces between line feeds, the piece
\* after the last line feed included (empty when the text ends in one).
RECURSIVE Split(_)
Split(s) ==
    IF \A i \in 1..Len(s) : s[i] # "NL"
    THEN <<s>>
    ELSE LET i == CHOOSE k \in 1..Len(s) :
                     s[k] = "NL" /\ \A j \in 1..(k-1) : s[j] # "NL"
         IN  <<SubSeq(s, 1, i-1)>> \o Split(SubSeq(s, i+1, Len(s)))

\* lines after lines.pop(): all pieces but the last.
AllButLast(ls) == SubSeq(ls, 1, Len(ls) - 1)

\* line.startsWith('data: ')
StartsWithData(line) == Len(line) >= 2 /\ line[1] = "D" /\ line[2] = " "

\* line.slice(6)
Payload(line) == SubSeq(line, 3, Len(line))

\* data === '[DONE]'
IsDoneSentinel(data) == data = <<"[DONE]">>

(***************************************************************************)
(* TextDecoder.decode(value, { stream: true })                              *)
(***************************************************************************)
\* One call: the bytes carried over from the call before, then this chunk.
\* A lead byte waits for its continuation byte, across calls as well; a lead
\* byte followed by anything else, and a continuation byte with no lead
\* byte, decode to U+FFFD.
RECURSIVE DecodeBytes(_, _)
DecodeBytes(pending, bytes) ==
    IF bytes = <<>>
    THEN [out |-> <<>>, pending |-> pending]
    ELSE LET b == Head(bytes)
         IN  IF pending = <<"E1">>
             THEN IF b = "E2"
                  THEN LET r == DecodeBytes(<<>>, Tail(bytes))
                       IN  [out |-> <<"e'">> \o r.out, pending |-> r.pending]
                  ELSE LET r == DecodeBytes(<<>>, bytes)
                       IN  [out |-> <<"?">> \o r.out, pending |-> r.pending]
             ELSE IF b = "E1"
                  THEN DecodeBytes(<<"E1">>, Tail(bytes))
                  ELSE LET r == DecodeBytes(<<>>, Tail(bytes))
                       IN  [out |-> <<(IF b = "E2" THEN "?" ELSE b)>> \o r.out,
                            pending |-> r.pending]

(***************************************************************************)
(* JSON.parse and the path choices[0].delta.content                         *)
(***************************************************************************)
ContentChars == {"a", "e'", "?"}

\* JSON.parse skips white space around the value: the payload without the
\* carriage returns and spaces at its end.
RECURSIVE TrimEnd(_)
TrimEnd(data) ==
    IF data # <<>> /\ data[Len(data)] \in {"CR", " "}
    THEN TrimEnd(SubSeq(data, 1, Len(data) - 1))
    ELSE data

\* JSON.parse(data) returns: the payload is the opening text, a string of
\* content characters and the closing text.  On anything else it throws.
JSONValid(data) ==
    \E d \in {TrimEnd(data)} :
        /\ Len(d) >= 2
        /\ d[1] = "{"
        /\ d[Len(d)] = "}"
        /\ \A i \in 2..(Len(d)-1) : d[i] \in ContentChars

\* parsed.choices[0].delta.content of a payload JSON.parse accepts; the empty
\* string stands for a delta with no content (a role-only frame).
DeltaContent(data) ==
    LET d == TrimEnd(data) IN SubSeq(d, 2, Len(d) - 1)


(***************************************************************************)
(* The response bodies the consumers are run on                             *)
(***************************************************************************)
\* The lines a server sends, without their line feed.
ContentLineA  == <<"D", " ", "{", "a", "}">>
ContentLineE  == <<"D", " ", "{", "E1", "E2", "}">>
RoleLine      == <<"D", " ", "{", "}">>
MalformedLine == <<"D", " ", "{", "a">>
DoneLine      == <<"D", " ", "[DONE]">>
CommentLine   == <<":">>

LineKinds ==
    {ContentLineA, ContentLineE, RoleLine, MalformedLine, DoneLine, CommentLine}

\* Every line ends in a line feed, the last one only when `closed`.
RECURSIVE Body(_, _)
Body(ls, closed) ==
    IF ls = <<>> THEN <<>>
    ELSE IF Len(ls) = 1
         THEN Head(ls) \o (IF closed THEN <<"NL">> ELSE <<>>)
         ELSE Head(ls) \o <<"NL">> \o Body(Tail(ls), closed)

Streams ==
    { Body(ls, closed) :
        ls \in UNION { [1..n -> LineKinds] : n \in 1..MaxLines },
        closed \in BOOLEAN }

\* The lines of a server that ends its lines with CR LF, and a sentinel
\* line with a space after the sentinel.
ContentLineCR == ContentLineA \o <<"CR">>
DoneLineCR    == DoneLine \o <<"CR">>
DoneLineSpace == DoneLine \o <<" ">>

PaddedLineKinds == {ContentLineCR, DoneLine, DoneLineCR, DoneLineSpace}

PaddedStreams ==
    { Body(ls, closed) :
        ls \in UNION { [1..n -> PaddedLineKinds] : n \in 1..MaxLines },
        closed \in BOOLEAN }

(***************************************************************************)
(* SidebarManager.performSummarization / performChatResponse: the loop      *)
(***************************************************************************)
\* The locals after `let fullContent = ''; let buffer = '';` and the AI
\* message element created just before (class 'ai streaming', empty).
\*   pending      the bytes the TextDecoder holds back between two calls
\*   status       where the consumer is: "streaming" in its loop, else how
\*                it left it
\*   doneSeen     whether the branch for the sentinel line has been taken
\*   aiMsg        the AI message element: the text its innerHTML was last
\*                rendered from, whether the cursor span follows it, whether
\*                it has the class 'streaming', and whether it shows the
\*                error text instead
\*   renders      the texts rendered into the element while streaming
\*   errors       the error messages shown
\*   events       what APIClient's iterator has yielded
\*   conversation ChatComponent's currentConversation
\* All three consumers use this record; each leaves alone what it has not.
SidebarStart ==
    [ pending     |-> <<>>,
      buffer      |-> <<>>,
      fullContent |-> <<>>,
      status      |-> "streaming",
      isDone      |-> FALSE,
      doneSeen    |-> FALSE,
      aiMsg       |-> [src |-> <<>>, cursor |-> FALSE, streaming |-> TRUE,
                       error |-> FALSE],
      renders     |-> <<>>,
      errors      |-> <<>>,
      events      |-> <<>>,
      conversation |-> <<>> ]

\* Mutant of SidebarParseError: the parse error leaves the try block and
\* reaches the outer catch, which reports it.
SidebarParseErrorEscapes(s) ==
    [s EXCEPT !.status = "failed",
              !.errors = Append(@, [title |-> "API Error",
                                    detail |-> "Unexpected end of JSON input"])]

\* catch (e) { console.debug('Stream parsing:', e); }
SidebarParseError(s) == s

\* if (data === '[DONE]') { return; }
SidebarOnDone(s) == [s EXCEPT !.status = "returned", !.doneSeen = TRUE]

\* Mutant of SidebarAppend: the delta is put in front of the text.
SidebarAppendInFront(s, content) ==
    LET full == content \o s.fullContent
    IN  [s EXCEPT !.fullContent = full,
                  !.aiMsg = [@ EXCEPT !.src = full, !.cursor = TRUE],
                  !.renders = Append(@, full)]

\* fullContent += content; aiMsg.innerHTML = formatMarkdown(fullContent) + cursor
SidebarAppend(s, content) ==
    LET full == s.fullContent \o content
    IN  [s EXCEPT !.fullContent = full,
                  !.aiMsg = [@ EXCEPT !.src = full, !.cursor = TRUE],
                  !.renders = Append(@, full)]

\* The body of `for (const line of lines)` for one line.  Every payload
\* JSON.parse accepts here has choices[0].delta, so the test of line 1405
\* passes; a delta without content appends '' and renders.
SidebarLine(s, line) ==
    IF ~StartsWithData(line) THEN s
    ELSE LET data == Payload(line)
         IN  IF IsDoneSentinel(data) THEN SidebarOnDone(s)
             ELSE IF ~JSONValid(data) THEN SidebarParseError(s)
             ELSE SidebarAppend(s, DeltaContent(data))

RECURSIVE SidebarLines(_, _)
SidebarLines(s, lines) ==
    IF lines = <<>> \/ s.status # "streaming" THEN s
    ELSE SidebarLines(SidebarLine(s, Head(lines)), Tail(lines))

\* Mutant of SidebarSplit: no line is carried over; every piece of the
\* chunk is taken for a line.
SidebarSplitNoCarry(buffer, chunk) ==
    [lines |-> Split(chunk), buffer |-> <<>>]

\* buffer += chunk; lines = buffer.split('\n'); buffer = lines.pop() || ''
SidebarSplit(buffer, chunk) ==
    LET lines == Split(buffer \o chunk)
    IN  [lines |-> AllButLast(lines), buffer |-> lines[Len(lines)]]

\* One pass of the while loop with read() returning { done: false, value }.
SidebarRead(s, value) ==
    LET d  == DecodeBytes(s.pending, value)
        sp == SidebarSplit(s.buffer, d.out)
    IN  SidebarLines([s EXCEPT !.pending = d.pending, !.buffer = sp.buffer],
                     sp.lines)

\* Mutant of SidebarClose: the loop is left by `return`, not by `break`.
SidebarCloseReturns(s) == [s EXCEPT !.status = "returned"]

\* read() returns { done: true }: break, then the two lines after the loop.
SidebarClose(s) ==
    [s EXCEPT !.status = "finalized",
              !.aiMsg = [@ EXCEPT !.src = s.fullContent, !.cursor = FALSE,
                                  !.streaming = FALSE]]

\* read() rejects: the catch block appends an error message with error.message.
SidebarFail(s, detail) ==
    [s EXCEPT !.status = "failed",
              !.errors = Append(@, [title |-> "API Error", detail |-> detail])]

(***************************************************************************)
(* ChatComponent.handleStreamingResponse                                    *)
(***************************************************************************)
\* addMessage('ai', '') and `let fullContent = ''`.
ChatStart ==
    [ SidebarStart EXCEPT !.aiMsg = [@ EXCEPT !.streaming = FALSE] ]

\* if (data === '[DONE]') continue;
ChatOnDone(s) == [s EXCEPT !.doneSeen = TRUE]

\* catch (e) { continue; }
ChatParseError(s) == s

\* if (content) { fullContent += content; innerHTML = render(fullContent) }
ChatAppend(s, content) ==
    IF content = <<>> THEN s
    ELSE LET full == s.fullContent \o content
         IN  [s EXCEPT !.fullContent = full,
                       !.aiMsg = [@ EXCEPT !.src = full],
                       !.renders = Append(@, full)]

ChatLine(s, line) ==
    IF ~StartsWithData(line) THEN s
    ELSE LET data == Payload(line)
         IN  IF IsDoneSentinel(data) THEN ChatOnDone(s)
             ELSE IF ~JSONValid(data) THEN ChatParseError(s)
             ELSE ChatAppend(s, DeltaContent(data))

RECURSIVE ChatLines(_, _)
ChatLines(s, lines) ==
    IF lines = <<>> THEN s
    ELSE ChatLines(ChatLine(s, Head(lines)), Tail(lines))

\* chunk = decoder.decode(value, { stream: true }); lines = chunk.split('\n')
ChatRead(s, value) ==
    LET d == DecodeBytes(s.pending, value)
    IN  ChatLines([s EXCEPT !.pending = d.pending], Split(d.out))

\* Mutant of ChatClose: the loop is left without the push.
ChatCloseWithoutPush(s) == [s EXCEPT !.status = "committed"]

\* read() returns { done: true }: break, then currentConversation.push(...)
ChatClose(s) ==
    [s EXCEPT !.status = "committed",
              !.conversation =
                  Append(@, [role |-> "assistant", content |-> s.fullContent])]

\* read() rejects: innerHTML = '<em>Error reading response. ...</em>'
ChatFail(s, detail) ==
    [s EXCEPT !.status = "failed",
              !.aiMsg = [@ EXCEPT !.src = <<>>, !.error = TRUE]]

(***************************************************************************)
(* APIClient.handleStreamingResponse: the async iterator                    *)
(***************************************************************************)
ApiStart == ChatStart

\* if (data === '[DONE]') { isDone = true; break; }
ApiOnDone(s) == [s EXCEPT !.isDone = TRUE, !.doneSeen = TRUE]

\* catch (e) { continue; }
ApiParseError(s) == s

\* if (content) { fullContent += content; yield { type: 'content', ... } }
ApiAppend(s, content) ==
    IF content = <<>> THEN s
    ELSE LET full == s.fullContent \o content
         IN  [s EXCEPT !.fullContent = full,
                       !.events = Append(@, [type |-> "content",
                                             content |-> content,
                                             fullContent |-> full])]

ApiLine(s, line) ==
    IF ~StartsWithData(line) THEN s
    ELSE LET data == Payload(line)
         IN  IF IsDoneSentinel(data) THEN ApiOnDone(s)
             ELSE IF ~JSONValid(data) THEN ApiParseError(s)
             ELSE ApiAppend(s, DeltaContent(data))

RECURSIVE ApiLines(_, _)
ApiLines(s, lines) ==
    IF lines = <<>> \/ s.isDone THEN s
    ELSE ApiLines(ApiLine(s, Head(lines)), Tail(lines))

\* yield { type: 'done', fullContent } once the while loop is left.
ApiYieldDone(s) ==
    [s EXCEPT !.status = "done",
              !.events = Append(@, [type |-> "done",
                                    fullContent |-> s.fullContent])]

\* One pass of `while (!isDone)` with read() returning a value; the loop is
\* left in the same pass when the sentinel was in the chunk.
ApiRead(s, value) ==
    LET d == DecodeBytes(s.pending, value)
        t == ApiLines([s EXCEPT !.pending = d.pending], Split(d.out))
    IN  IF t.isDone THEN ApiYieldDone(t) ELSE t

\* read() returns { done: true }: isDone = true; break; then the 'done' event.
ApiClose(s) == ApiYieldDone([s EXCEPT !.isDone = TRUE])

\* Mutant of ApiFail: the 'done' event follows the 'error' event.
ApiFailThenDone(s, detail) ==
    [s EXCEPT !.status = "error",
              !.events = @ \o <<[type |-> "error", error |-> detail],
                                [type |-> "done",
                                 fullContent |-> s.fullContent]>>]

\* read() rejects: yield { type: 'error', error: error.message }
ApiFail(s, detail) ==
    [s EXCEPT !.status = "error",
              !.events = Append(@, [type |-> "error", error |-> detail])]

(***************************************************************************)
(* The components as their constructors leave them                          *)
(***************************************************************************)
\* this.sidebarContainer = null; this.overlay = null.  Once created, the
\* container has or lacks the class 'open' and the overlay has a display
\* (the style sheet gives it display: none).
NoContainer == [created |-> FALSE, open |-> FALSE]
NoOverlay == [created |-> FALSE, display |-> "none"]

PageStart ==
    /\ sidebarContainer = NoContainer
    /\ overlay = NoOverlay
    /\ appended = [containers |-> 0, overlays |-> 0]

\* The settings form as the markup of loadComponents gives it.  The values
\* of the three sliders are strings of digits: "0.3" is <<0, 3>>, a whole
\* number of the temperature slider such as "1" is <<1>>, "400" is
\* <<4, 0, 0>>.
HtmlForm ==
    [baseUrl |-> "https://api", apiKey |-> "", dumplingApiKey |-> "",
     dumplingApiUrl |-> "https://dumpling", pdf2markdownUrl |-> "https://xtomd",
     modelName |-> "qwen", temperature |-> <<0, 3>>, systemPrompt |-> "prompt",
     sidebarWidth |-> <<4, 0, 0>>, fontSize |-> <<1, 4>>]

\* No request has been made.  Numbers with a fraction are counted in tenths.
NoSent ==
    [built |-> FALSE, url |-> <<>>, bearer |-> "", model |-> "",
     temperature |-> 0]

FormIdle == form = HtmlForm /\ sent = NoSent

\* this.pdfCache = new Map(), over the keys the calls can use.  A value a
\* call returns or the cache holds is a string or a parsed JSON object: of
\* a string, text is the string; of an object, text is its
\* results[0].markdown ("" when it has none).
NoValue == [type |-> "undefined", text |-> ""]
NoEntry == [has |-> FALSE, result |-> NoValue, timestamp |-> 0]
PdfUrls == {"a.pdf", "b.pdf"}
Pdf2MarkdownUrls == {"https://xtomd", "https://other"}

\* const cacheKey = `${pdfUrl}-${pdf2markdownUrl}`
CacheKey(pdfUrl, pdf2markdownUrl) == <<pdfUrl, "-", pdf2markdownUrl>>
CacheKeys == {CacheKey(u, m) : u \in PdfUrls, m \in Pdf2MarkdownUrls}
NoCache == [k \in CacheKeys |-> NoEntry]

PdfIdle ==
    /\ pdfHandler = "content"
    /\ pdfCache = NoCache
    /\ now = 0
    /\ pdfCalls = <<>>

BackgroundIdle == received = <<>>

(***************************************************************************)
(* One streaming response: a consumer run on a body that the transport      *)
(* hands out in fragments of any size                                       *)
(***************************************************************************)
Kinds == {"sidebar", "chat", "api"}

\* this.settings = null, as the constructor leaves it, until loadSettings
\* has stored the GET_SETTINGS response.
NoSettings == [loaded |-> FALSE, apiKey |-> "", baseUrl |-> ""]

\* What chrome.storage.sync.get hands back when nothing has been saved: the
\* defaults of the call (baseUrl 'https://openrouter.ai/api/v1', no keys).
DefaultSettings ==
    [baseUrl |-> "https://api", apiKey |-> "", dumplingApiKey |-> ""]

\* What the store can hold: saveSettings() writes the form's fields as they
\* are, an empty base URL or empty keys included.
StoredSettings ==
    [baseUrl : {"", "https://api"}, apiKey : {"", "sk"},
     dumplingApiKey : {"", "dk"}]

\* What a rejected read() carries in error.message.
ReadError == "network error"

StartOf(k) ==
    IF k = "sidebar" THEN SidebarStart
    ELSE IF k = "chat" THEN ChatStart ELSE ApiStart

InitStream ==
    /\ kind \in Kinds
    /\ stream \in Streams
    /\ pos = 0
    /\ rs = "open"
    /\ fragmented = FALSE
    /\ st = StartOf(kind)
    /\ isVisible = FALSE
    /\ storage = DefaultSettings
    /\ chatMessages = <<>>
    /\ turns = <<>>
    /\ settings = NoSettings
    /\ isGenerating = FALSE
    /\ currentConversation = <<>>
    /\ chatDom = <<>>
    /\ chatTurns = <<>>
    /\ PageStart
    /\ FormIdle
    /\ PdfIdle
    /\ BackgroundIdle

\* The consumer is suspended in `await reader.read()`.
Reading(k) == kind = k /\ rs = "open" /\ st.status = "streaming"

\* The next n bytes of the body.
Fragment(n) == SubSeq(stream, pos + 1, pos + n)

\* The transport cut the body after byte p, with the line there unfinished.
CutsLine(p) == p < Len(stream) /\ stream[p] # "NL"

SidebarReadStep ==
    /\ Reading("sidebar")
    /\ \E n \in 1..(Len(stream) - pos) :
          /\ st' = SidebarRead(st, Fragment(n))
          /\ pos' = pos + n
          /\ fragmented' = (fragmented \/ CutsLine(pos + n))
    /\ UNCHANGED <<kind, stream, rs>>
    /\ UNCHANGED <<sidebarVars, pageVars, chatVars, idleVars>>

SidebarCloseStep ==
    /\ Reading("sidebar")
    /\ pos = Len(stream)
    /\ rs' = "closed"
    /\ st' = SidebarClose(st)
    /\ UNCHANGED <<kind, stream, pos, fragmented>>
    /\ UNCHANGED <<sidebarVars, pageVars, chatVars, idleVars>>

SidebarFailStep ==
    /\ Reading("sidebar")
    /\ rs' = "errored"
    /\ st' = SidebarFail(st, ReadError)
    /\ UNCHANGED <<kind, stream, pos, fragmented>>
    /\ UNCHANGED <<sidebarVars, pageVars, chatVars, idleVars>>

ChatReadStep ==
    /\ Reading("chat")
    /\ \E n \in 1..(Len(stream) - pos) :
          /\ st' = ChatRead(st, Fragment(n))
          /\ pos' = pos + n
          /\ fragmented' = (fragmented \/ CutsLine(pos + n))
    /\ UNCHANGED <<kind, stream, rs>>
    /\ UNCHANGED <<sidebarVars, pageVars, chatVars, idleVars>>

ChatCloseStep ==
    /\ Reading("chat")
    /\ pos = Len(stream)
    /\ rs' = "closed"
    /\ st' = ChatClose(st)
    /\ UNCHANGED <<kind, stream, pos, fragmented>>
    /\ UNCHANGED <<sidebarVars, pageVars, chatVars, idleVars>>

ChatFailStep ==
    /\ Reading("chat")
    /\ rs' = "errored"
    /\ st' = ChatFail(st, ReadError)
    /\ UNCHANGED <<kind, stream, pos, fragmented>>
    /\ UNCHANGED <<sidebarVars, pageVars, chatVars, idleVars>>

ApiReadStep ==
    /\ Reading("api")
    /\ \E n \in 1..(Len(stream) - pos) :
          /\ st' = ApiRead(st, Fragment(n))
          /\ pos' = pos + n
          /\ fragmented' = (fragmented \/ CutsLine(pos + n))
    /\ UNCHANGED <<kind, stream, rs>>
    /\ UNCHANGED <<sidebarVars, pageVars, chatVars, idleVars>>

ApiCloseStep ==
    /\ Reading("api")
    /\ pos = Len(stream)
    /\ rs' = "closed"
    /\ st' = ApiClose(st)
    /\ UNCHANGED <<kind, stream, pos, fragmented>>
    /\ UNCHANGED <<sidebarVars, pageVars, chatVars, idleVars>>

ApiFailStep ==
    /\ Reading("api")
    /\ rs' = "errored"
    /\ st' = ApiFail(st, ReadError)
    /\ UNCHANGED <<kind, stream, pos, fragmented>>
    /\ UNCHANGED <<sidebarVars, pageVars, chatVars, idleVars>>

NextStream ==
    \/ SidebarReadStep
    \/ SidebarCloseStep
    \/ SidebarFailStep
    \/ ChatReadStep
    \/ ChatCloseStep
    \/ ChatFailStep
    \/ ApiReadStep
    \/ ApiCloseStep
    \/ ApiFailStep

SpecStream == InitStream /\ [][NextStream]_vars

\* The same consumers on the bodies of a server that pads its lines.
InitPadded ==
    /\ kind \in Kinds
    /\ stream \in PaddedStreams
    /\ pos = 0
    /\ rs = "open"
    /\ fragmented = FALSE
    /\ st = StartOf(kind)
    /\ isVisible = FALSE
    /\ storage = DefaultSettings
    /\ chatMessages = <<>>
    /\ turns = <<>>
    /\ settings = NoSettings
    /\ isGenerating = FALSE
    /\ currentConversation = <<>>
    /\ chatDom = <<>>
    /\ chatTurns = <<>>
    /\ PageStart
    /\ FormIdle
    /\ PdfIdle
    /\ BackgroundIdle

SpecPadded == InitPadded /\ [][NextStream]_vars

(***************************************************************************)
(* SidebarManager: turns in the chat area                                   *)
(***************************************************************************)
\* A child of the chat area: the element a turn created, by its class.
\* The content of a turn's AI message is in the turn (turns[t].s.aiMsg): the
\* turn keeps the element and writes to it whether or not it is still a
\* child of the chat area.
Ref(t, cls) == [turn |-> t, cls |-> cls]

NotLoading(r) == r.cls # "loading"

Without(children, r) == SelectSeq(children, LAMBDA x : x # r)

InChat(r) == \E i \in 1..Len(chatMessages) : chatMessages[i] = r

\* The bodies' fragments in this part of the model: whole lines.
TurnChunks ==
    { ContentLineA \o <<"NL">>, DoneLine \o <<"NL">> }

\* No response, and the responses whose status is not ok, with their body.
NoResponse == [status |-> "", body |-> ""]

ErrorResponses == [status : {"429", "500"}, body : {"quota exceeded"}]

\* new Error(`API request failed with status ${response.status}`): the
\* parts of error.message.
SidebarHttpError(response) ==
    <<"API request failed with status ", response.status>>

\* `cfg` is the `settings` argument of performSummarization /
\* performChatResponse (the defaults until chrome.storage.sync.get has
\* called back); `requested` says that fetch() has been called.
\* `response` is the response of a fetch that resolved with a status that
\* is not ok.
NewTurn(op, pc) ==
    [op |-> op, pc |-> pc, reader |-> "none", reads |-> 0, s |-> SidebarStart,
     cfg |-> DefaultSettings, requested |-> FALSE, response |-> NoResponse]

InitSidebar ==
    /\ kind = "sidebar"
    /\ stream = <<>>
    /\ pos = 0
    /\ rs = "open"
    /\ fragmented = FALSE
    /\ st = SidebarStart
    /\ isVisible = FALSE
    /\ storage \in StoredSettings
    /\ chatMessages = <<>>
    /\ turns = <<>>
    /\ settings = NoSettings
    /\ isGenerating = FALSE
    /\ currentConversation = <<>>
    /\ chatDom = <<>>
    /\ chatTurns = <<>>
    /\ PageStart
    /\ FormIdle
    /\ PdfIdle
    /\ BackgroundIdle

\* The fields of SidebarManager that the visibility methods work on.
Page ==
    [isVisible |-> isVisible, sidebarContainer |-> sidebarContainer,
     overlay |-> overlay, appended |-> appended]

SetPage(p) ==
    /\ isVisible' = p.isVisible
    /\ sidebarContainer' = p.sidebarContainer
    /\ overlay' = p.overlay
    /\ appended' = p.appended

\* Mutant of injectSidebar: the guard on this.sidebarContainer is gone.
injectSidebarAgain(p) ==
    [p EXCEPT !.overlay = [created |-> TRUE, display |-> "none"],
              !.sidebarContainer = [created |-> TRUE, open |-> FALSE],
              !.appended = [containers |-> @.containers + 1,
                            overlays |-> @.overlays + 1]]

\* injectSidebar(): nothing when the container exists; else the overlay and
\* the container are created and appended to document.body.
injectSidebar(p) ==
    IF p.sidebarContainer.created
    THEN p
    ELSE [p EXCEPT !.overlay = [created |-> TRUE, display |-> "none"],
                   !.sidebarContainer = [created |-> TRUE, open |-> FALSE],
                   !.appended = [containers |-> @.containers + 1,
                                 overlays |-> @.overlays + 1]]

showSidebar(p) ==
    LET q == IF ~p.sidebarContainer.created THEN injectSidebar(p) ELSE p
    IN  [q EXCEPT !.overlay.display = "block",
                  !.sidebarContainer.open = TRUE,
                  !.isVisible = TRUE]

hideSidebar(p) ==
    [p EXCEPT !.overlay.display = IF p.overlay.created THEN "none" ELSE @,
              !.sidebarContainer.open =
                  IF p.sidebarContainer.created THEN FALSE ELSE @,
              !.isVisible = FALSE]

toggleSidebar(p) == IF p.isVisible THEN hideSidebar(p) ELSE showSidebar(p)

\* handleMessage, TOGGLE_SIDEBAR_VISIBILITY: the extension's button.
ToggleSidebar ==
    /\ SetPage(toggleSidebar(Page))
    /\ UNCHANGED <<storage, chatMessages, turns>>
    /\ UNCHANGED <<streamVars, chatVars, idleVars>>

\* The close button or a click on the overlay: each calls hideSidebar().
HideSidebar ==
    /\ isVisible
    /\ SetPage(hideSidebar(Page))
    /\ UNCHANGED <<storage, chatMessages, turns>>
    /\ UNCHANGED <<streamVars, chatVars, idleVars>>

\* handleMessage, INJECT_SIDEBAR.
InjectSidebar ==
    /\ SetPage(injectSidebar(Page))
    /\ UNCHANGED <<storage, chatMessages, turns>>
    /\ UNCHANGED <<streamVars, chatVars, idleVars>>

\* clearChat(): the clear button.
ClearChat ==
    /\ isVisible
    /\ chatMessages' = <<>>
    /\ UNCHANGED <<isVisible, storage, turns>>
    /\ UNCHANGED <<streamVars, pageVars, chatVars, idleVars>>

\* saveSettings(): the form's fields go to chrome.storage.sync.  A save
\* before the first turn gives a store that InitSidebar already covers, so
\* saves are taken from the first turn on.
SaveSettings ==
    /\ isVisible
    /\ Len(turns) >= 1
    /\ Len(turns) < MaxTurns
    /\ storage' \in StoredSettings \ {storage}
    /\ UNCHANGED <<isVisible, chatMessages, turns>>
    /\ UNCHANGED <<streamVars, pageVars, chatVars, idleVars>>

\* sendMessage() with a non-empty input, up to chrome.storage.sync.get.
SendMessage ==
    /\ isVisible
    /\ Len(turns) < MaxTurns
    /\ LET t == Len(turns) + 1
       IN  chatMessages' = SelectSeq(chatMessages, NotLoading)
                             \o <<Ref(t, "user"), Ref(t, "loading")>>
    /\ turns' = Append(turns, NewTurn("chat", "settings"))
    /\ UNCHANGED <<isVisible, storage>>
    /\ UNCHANGED <<streamVars, pageVars, chatVars, idleVars>>

\* summarizePage(), up to `await this.extractPageContent(loadingMsg)`.
SummarizePage ==
    /\ isVisible
    /\ Len(turns) < MaxTurns
    /\ chatMessages' = <<Ref(Len(turns) + 1, "loading")>>
    /\ turns' = Append(turns, NewTurn("summarize", "extract"))
    /\ UNCHANGED <<isVisible, storage>>
    /\ UNCHANGED <<streamVars, pageVars, chatVars, idleVars>>

\* extractPageContent() resolves (it catches its own errors): summarizePage
\* goes on to chrome.storage.sync.get, performChatResponse to its fetch.
PageExtracted(t) ==
    /\ turns[t].pc = "extract"
    /\ turns' = IF turns[t].op = "summarize"
                THEN [turns EXCEPT ![t].pc = "settings"]
                ELSE [turns EXCEPT ![t].pc = "fetch", ![t].requested = TRUE]
    /\ UNCHANGED <<isVisible, storage, chatMessages>>
    /\ UNCHANGED <<streamVars, pageVars, chatVars, idleVars>>

\* if (!settings.apiKey && !settings.dumplingApiKey)
ConfigMissing(cfg) == cfg.apiKey = "" /\ cfg.dumplingApiKey = ""

\* The catch block of performSummarization / performChatResponse and the
\* configuration branch: the loading message goes, an error message comes.
ShowTurnError(t) ==
    Append(Without(chatMessages, Ref(t, "loading")), Ref(t, "error"))

\* chrome.storage.sync.get calls back: performSummarization /
\* performChatResponse start with the configuration check.
SettingsLoaded(t) ==
    /\ turns[t].pc = "settings"
    /\ IF ConfigMissing(storage)
       THEN /\ chatMessages' = ShowTurnError(t)
            /\ turns' = [turns EXCEPT ![t].pc = "end", ![t].cfg = storage]
       ELSE /\ turns' = IF turns[t].op = "summarize"
                        THEN [turns EXCEPT ![t].pc = "fetch",
                                           ![t].cfg = storage,
                                           ![t].requested = TRUE]
                        ELSE [turns EXCEPT ![t].pc = "extract",
                                           ![t].cfg = storage]
            /\ UNCHANGED chatMessages
    /\ UNCHANGED <<isVisible, storage>>
    /\ UNCHANGED <<streamVars, pageVars, chatVars, idleVars>>

\* fetch resolves with response.ok: the loading message is replaced by the
\* streaming AI message and the reader is taken.
FetchOk(t) ==
    /\ turns[t].pc = "fetch"
    /\ chatMessages' =
           Append(Without(chatMessages, Ref(t, "loading")), Ref(t, "ai"))
    /\ turns' = [turns EXCEPT ![t].pc = "streaming", ![t].reader = "locked"]
    /\ UNCHANGED <<isVisible, storage>>
    /\ UNCHANGED <<streamVars, pageVars, chatVars, idleVars>>

\* fetch rejects, or resolves with a status that is not ok: the catch block.
FetchFailed(t) ==
    /\ turns[t].pc = "fetch"
    /\ \/ turns' = [turns EXCEPT ![t].pc = "end",
                                 ![t].s = SidebarFail(@, <<"Failed to fetch">>)]
       \/ \E response \in ErrorResponses :
             turns' = [turns EXCEPT
                          ![t].pc = "end",
                          ![t].response = response,
                          ![t].s = SidebarFail(@, SidebarHttpError(response))]
    /\ chatMessages' = ShowTurnError(t)
    /\ UNCHANGED <<isVisible, storage>>
    /\ UNCHANGED <<streamVars, pageVars, chatVars, idleVars>>

\* One pass of the turn's while loop.
TurnRead(t) ==
    /\ turns[t].pc = "streaming"
    /\ turns[t].reads < MaxReads
    /\ \E chunk \in TurnChunks :
          LET s2 == SidebarRead(turns[t].s, chunk)
          IN  turns' = [turns EXCEPT
                  ![t].s = s2,
                  ![t].reads = @ + 1,
                  ![t].pc = IF s2.status = "returned" THEN "end" ELSE @]
    /\ UNCHANGED <<isVisible, storage, chatMessages>>
    /\ UNCHANGED <<streamVars, pageVars, chatVars, idleVars>>

\* The turn's read() reports done.
TurnClose(t) ==
    /\ turns[t].pc = "streaming"
    /\ turns' = [turns EXCEPT ![t].s = SidebarClose(@), ![t].pc = "end"]
    /\ UNCHANGED <<isVisible, storage, chatMessages>>
    /\ UNCHANGED <<streamVars, pageVars, chatVars, idleVars>>

\* The turn's read() rejects.
TurnFail(t) ==
    /\ turns[t].pc = "streaming"
    /\ turns' = [turns EXCEPT ![t].s = SidebarFail(@, ReadError),
                              ![t].pc = "end"]
    /\ chatMessages' = ShowTurnError(t)
    /\ UNCHANGED <<isVisible, storage>>
    /\ UNCHANGED <<streamVars, pageVars, chatVars, idleVars>>

NextSidebar ==
    \/ ToggleSidebar
    \/ HideSidebar
    \/ InjectSidebar
    \/ ClearChat
    \/ SaveSettings
    \/ SendMessage
    \/ SummarizePage
    \/ \E t \in 1..Len(turns) :
          \/ PageExtracted(t)
          \/ SettingsLoaded(t)
          \/ FetchOk(t)
          \/ FetchFailed(t)
          \/ TurnRead(t)
          \/ TurnClose(t)
          \/ TurnFail(t)

SpecSidebar == InitSidebar /\ [][NextSidebar]_vars

(***************************************************************************)
(* ChatComponent: turns                                                     *)
(***************************************************************************)
ChatWithout(children, r) == SelectSeq(children, LAMBDA x : x # r)

\* The one loading element (id neutral-summarizer-loading).
LoadingRef == Ref(0, "loading")

\* The text of the user message of turn t ('q', 'qq', ...: one text per
\* turn), and summarizePage's fixed request text.
UserInput(t) == [i \in 1..t |-> "q"]

SummarizeInput == <<"Please summarize this page content.">>

\* No fetch() yet.
NoRequest == [url |-> <<>>, bearer |-> "", messages |-> <<>>]

\* `request` is what generateAIResponse has passed to fetch().
NewChatTurn(op) ==
    [op |-> op, pc |-> "extract", requested |-> FALSE, reads |-> 0,
     s |-> ChatStart, request |-> NoRequest]

\* buildConversationMessages(userMessage, pageContent, systemPrompt): the
\* system prompt, the page context, currentConversation, the user message.
BuildConversationMessages(userMessage) ==
    << [role |-> "system", content |-> <<"prompt">>],
       [role |-> "system", content |-> <<"page">>] >>
    \o currentConversation
    \o << [role |-> "user", content |-> userMessage] >>

\* fetch(`${this.settings.baseUrl}/chat/completions`, ...) with
\* this.settings.apiKey in the Authorization header.
ChatRequest(t) ==
    [url |-> <<settings.baseUrl, "/chat/completions">>,
     bearer |-> settings.apiKey,
     messages |-> BuildConversationMessages(
                      IF chatTurns[t].op = "summarize" THEN SummarizeInput
                      ELSE UserInput(t))]

\* What ChatComponent reads of the store: the endpoint and the API key.
\* The stores taken here are a complete configuration, one without API key
\* and one without endpoint.
ChatStoredSettings ==
    {c \in StoredSettings :
        c.dumplingApiKey = "" /\ (c.baseUrl # "" \/ c.apiKey # "")}

InitChat ==
    /\ kind = "chat"
    /\ stream = <<>>
    /\ pos = 0
    /\ rs = "open"
    /\ fragmented = FALSE
    /\ st = ChatStart
    /\ isVisible = FALSE
    /\ storage \in ChatStoredSettings
    /\ chatMessages = <<>>
    /\ turns = <<>>
    /\ settings = NoSettings
    /\ isGenerating = FALSE
    /\ currentConversation = <<>>
    /\ chatDom = <<>>
    /\ chatTurns = <<>>
    /\ PageStart
    /\ FormIdle
    /\ PdfIdle
    /\ BackgroundIdle

\* loadSettings(): the GET_SETTINGS response arrives with success and the
\* store's content (a response without success leaves settings null).
ChatLoadSettings ==
    /\ ~settings.loaded
    /\ settings' = [loaded |-> TRUE, apiKey |-> storage.apiKey,
                    baseUrl |-> storage.baseUrl]
    /\ UNCHANGED <<isGenerating, currentConversation, chatDom, chatTurns>>
    /\ UNCHANGED <<streamVars, sidebarVars, pageVars, idleVars>>

\* The settings form is saved: SAVE_SETTINGS puts its fields in
\* chrome.storage.sync.  ChatComponent reads the store in loadSettings
\* alone, so a save before that is a store InitChat already covers, and a
\* save during a turn has the effect of the same save after it: saves are
\* taken once the settings are loaded, between turns.
ChatSaveSettings ==
    /\ settings.loaded
    /\ ~isGenerating
    /\ Len(chatTurns) < MaxTurns
    /\ storage' \in ChatStoredSettings \ {storage}
    /\ UNCHANGED <<isVisible, chatMessages, turns>>
    /\ UNCHANGED <<streamVars, pageVars, chatVars, idleVars>>

\* Mutant of ChatBusy: the guard is gone.
ChatBusyIgnored == FALSE

\* if (this.isGenerating) return;
ChatBusy == isGenerating

\* sendMessage() with a non-empty input: addMessage('user', message),
\* setLoading(true), up to `await this.extractPageContent()`.
ChatSendMessage ==
    /\ ~ChatBusy
    /\ Len(chatTurns) < MaxTurns
    /\ chatDom' = chatDom \o <<Ref(Len(chatTurns) + 1, "user"), LoadingRef>>
    /\ isGenerating' = TRUE
    /\ chatTurns' = Append(chatTurns, NewChatTurn("chat"))
    /\ UNCHANGED <<settings, currentConversation>>
    /\ UNCHANGED <<streamVars, sidebarVars, pageVars, idleVars>>

\* summarizePage(): clearChat(), setLoading(true), up to the same await.
ChatSummarizePage ==
    /\ ~ChatBusy
    /\ Len(chatTurns) < MaxTurns
    /\ chatDom' = <<LoadingRef>>
    /\ currentConversation' = <<>>
    /\ isGenerating' = TRUE
    /\ chatTurns' = Append(chatTurns, NewChatTurn("summarize"))
    /\ UNCHANGED settings
    /\ UNCHANGED <<streamVars, sidebarVars, pageVars, idleVars>>

\* sendMessage() or summarizePage() while a turn is generating: return.
ChatTurnRejected ==
    /\ ChatBusy
    /\ UNCHANGED vars

\* clearChat(): the clear button.
ChatClearChat ==
    /\ chatDom' = <<>>
    /\ currentConversation' = <<>>
    /\ UNCHANGED <<settings, isGenerating, chatTurns>>
    /\ UNCHANGED <<streamVars, sidebarVars, pageVars, idleVars>>

\* Mutant of ChatTurnThrows: the catch block without the finally block.
ChatTurnThrowsNoFinally(t) ==
    /\ chatDom' = Append(chatDom, Ref(t, "error"))
    /\ chatTurns' = [chatTurns EXCEPT ![t].pc = "end"]
    /\ UNCHANGED <<settings, isGenerating, currentConversation>>

\* The catch and finally blocks of sendMessage / summarizePage:
\* showError(...), then setLoading(false) with hideLoading().
ChatTurnThrows(t) ==
    /\ chatDom' = ChatWithout(Append(chatDom, Ref(t, "error")), LoadingRef)
    /\ isGenerating' = FALSE
    /\ chatTurns' = [chatTurns EXCEPT ![t].pc = "end"]
    /\ UNCHANGED <<settings, currentConversation>>

\* if (!this.settings.apiKey || !this.settings.baseUrl): a TypeError when
\* settings is null, else the configuration error.
ChatConfigIncomplete ==
    ~settings.loaded \/ settings.apiKey = "" \/ settings.baseUrl = ""

\* extractPageContent() resolves; generateAIResponse checks the
\* configuration and issues the fetch.
ChatPageExtracted(t) ==
    /\ chatTurns[t].pc = "extract"
    /\ IF ChatConfigIncomplete
       THEN ChatTurnThrows(t)
       ELSE /\ chatTurns' = [chatTurns EXCEPT ![t].pc = "fetch",
                                              ![t].requested = TRUE,
                                              ![t].request = ChatRequest(t)]
            /\ UNCHANGED <<settings, isGenerating, currentConversation,
                           chatDom>>
    /\ UNCHANGED <<streamVars, sidebarVars, pageVars, idleVars>>

\* extractPageContent() rejects (a YouTube page without transcript).
ChatExtractFailed(t) ==
    /\ chatTurns[t].pc = "extract"
    /\ ChatTurnThrows(t)
    /\ UNCHANGED <<streamVars, sidebarVars, pageVars, idleVars>>

\* fetch resolves with response.ok: handleStreamingResponse takes the
\* reader and adds the empty AI message.
ChatFetchOk(t) ==
    /\ chatTurns[t].pc = "fetch"
    /\ chatDom' = Append(chatDom, Ref(t, "ai"))
    /\ chatTurns' = [chatTurns EXCEPT ![t].pc = "streaming"]
    /\ UNCHANGED <<settings, isGenerating, currentConversation>>
    /\ UNCHANGED <<streamVars, sidebarVars, pageVars, idleVars>>

\* fetch rejects, or resolves with a status that is not ok.
ChatFetchFailed(t) ==
    /\ chatTurns[t].pc = "fetch"
    /\ ChatTurnThrows(t)
    /\ UNCHANGED <<streamVars, sidebarVars, pageVars, idleVars>>

\* One pass of handleStreamingResponse's while loop.
ChatTurnRead(t) ==
    /\ chatTurns[t].pc = "streaming"
    /\ chatTurns[t].reads < MaxReads
    /\ \E chunk \in TurnChunks :
          chatTurns' = [chatTurns EXCEPT ![t].s = ChatRead(@, chunk),
                                         ![t].reads = @ + 1]
    /\ UNCHANGED <<settings, isGenerating, currentConversation, chatDom>>
    /\ UNCHANGED <<streamVars, sidebarVars, pageVars, idleVars>>

\* read() reports done: the assistant message is pushed, the turn returns
\* and the finally block runs setLoading(false).
ChatTurnClose(t) ==
    /\ chatTurns[t].pc = "streaming"
    /\ LET s2 == ChatClose([chatTurns[t].s EXCEPT
                               !.conversation = currentConversation])
       IN  /\ currentConversation' = s2.conversation
           /\ chatTurns' = [chatTurns EXCEPT ![t].s = s2, ![t].pc = "end"]
    /\ chatDom' = ChatWithout(chatDom, LoadingRef)
    /\ isGenerating' = FALSE
    /\ UNCHANGED settings
    /\ UNCHANGED <<streamVars, sidebarVars, pageVars, idleVars>>

\* read() rejects: handleStreamingResponse catches it and returns.
ChatTurnFail(t) ==
    /\ chatTurns[t].pc = "streaming"
    /\ chatTurns' = [chatTurns EXCEPT ![t].s = ChatFail(@, ReadError),
                                      ![t].pc = "end"]
    /\ chatDom' = ChatWithout(chatDom, LoadingRef)
    /\ isGenerating' = FALSE
    /\ UNCHANGED <<settings, currentConversation>>
    /\ UNCHANGED <<streamVars, sidebarVars, pageVars, idleVars>>

NextChat ==
    \/ ChatLoadSettings
    \/ ChatSaveSettings
    \/ ChatSendMessage
    \/ ChatSummarizePage
    \/ ChatTurnRejected
    \/ ChatClearChat
    \/ \E t \in 1..Len(chatTurns) :
          \/ ChatPageExtracted(t)
          \/ ChatExtractFailed(t)
          \/ ChatFetchOk(t)
          \/ ChatFetchFailed(t)
          \/ ChatTurnRead(t)
          \/ ChatTurnClose(t)
          \/ ChatTurnFail(t)

SpecChat == InitChat /\ [][NextChat]_vars

\* What a turn in flight waits for: extractPageContent() and fetch() are
\* promises of the browser that settle, and the body of a response ends,
\* by its close or by a failed read.
ChatTurnSettles ==
    \E t \in 1..Len(chatTurns) :
        \/ ChatPageExtracted(t)
        \/ ChatExtractFailed(t)
        \/ ChatFetchOk(t)
        \/ ChatFetchFailed(t)
        \/ ChatTurnClose(t)
        \/ ChatTurnFail(t)

FairSpecChat == SpecChat /\ WF_vars(ChatTurnSettles)

(***************************************************************************)
(* SidebarManager: the settings form, chrome.storage.sync and the settings  *)
(* part of a chat-completions request                                       *)
(***************************************************************************)
\* <input type="range" ... min="0" max="2" step="0.1">, in tenths.
SliderMax == 20

FormFields ==
    {"baseUrl", "apiKey", "dumplingApiKey", "dumplingApiUrl",
     "pdf2markdownUrl", "modelName", "temperature", "systemPrompt",
     "sidebarWidth", "fontSize"}

\* String(n) of a whole number: its decimal digits.
RECURSIVE Digits(_)
Digits(n) == IF n < 10 THEN <<n>> ELSE Append(Digits(n \div 10), n % 10)

\* parseInt of a string of digits.
RECURSIVE parseInt(_)
parseInt(d) ==
    IF Len(d) = 0 THEN 0
    ELSE 10 * parseInt(SubSeq(d, 1, Len(d) - 1)) + d[Len(d)]

\* String(x) of a number with at most one decimal, x given in tenths:
\* "1" for 1.0, "0.3" for 0.3.
TenthsString(n) ==
    IF n % 10 = 0 THEN <<n \div 10>> ELSE <<n \div 10, n % 10>>

\* parseFloat of such a string, in tenths.
parseFloat(v) == IF Len(v) = 1 THEN 10 * v[1] ELSE 10 * v[1] + v[2]

\* What the user can leave in the form's fields.
FormValues ==
    [baseUrl : {"https://api", ""},
     apiKey : {"", "sk"},
     dumplingApiKey : {"", "dk"},
     dumplingApiUrl : {"https://dumpling", ""},
     pdf2markdownUrl : {"https://xtomd", "https://other"},
     modelName : {"qwen"},
     temperature : {TenthsString(n) : n \in 0..SliderMax},
     systemPrompt : {"prompt"},
     sidebarWidth : {Digits(400), Digits(300)},
     fontSize : {Digits(14)}]

\* chrome.storage.sync with nothing stored.
EmptyStore == [k \in {} |-> ""]

\* chrome.storage.sync.get(defaults): the stored value of each key of
\* defaults, the default where the key is not stored.
StorageGet(defaults) ==
    [k \in DOMAIN defaults |->
        IF k \in DOMAIN storage THEN storage[k] ELSE defaults[k]]

\* chrome.storage.sync.set(items): the keys of items are written, the other
\* keys stay.
StorageSet(items) ==
    [k \in (DOMAIN storage) \cup (DOMAIN items) |->
        IF k \in DOMAIN items THEN items[k] ELSE storage[k]]

\* The defaults of the get in summarizePage and sendMessage.
RequestDefaults ==
    [baseUrl |-> "https://api", apiKey |-> "", dumplingApiKey |-> "",
     modelName |-> "qwen", temperature |-> 3, systemPrompt |-> "prompt"]

\* The defaults of the get in loadCurrentSettings.
FormDefaults ==
    [baseUrl |-> "https://api", apiKey |-> "", dumplingApiKey |-> "",
     dumplingApiUrl |-> "https://dumpling", modelName |-> "qwen",
     temperature |-> 3, systemPrompt |-> "prompt", sidebarWidth |-> 400,
     fontSize |-> 14]

\* The settings object that saveSettings() builds from the form.
saveSettings(f) ==
    [baseUrl |-> f.baseUrl, apiKey |-> f.apiKey,
     dumplingApiKey |-> f.dumplingApiKey,
     dumplingApiUrl |-> f.dumplingApiUrl, modelName |-> f.modelName,
     temperature |-> parseFloat(f.temperature),
     systemPrompt |-> f.systemPrompt,
     sidebarWidth |-> parseInt(f.sidebarWidth),
     fontSize |-> parseInt(f.fontSize)]

\* loadSettingsIntoForm(settings): each field whose key settings has is set;
\* a number assigned to a slider's value becomes its string.
loadSettingsIntoForm(f, s) ==
    [f EXCEPT
        !.baseUrl = IF "baseUrl" \in DOMAIN s THEN s.baseUrl ELSE @,
        !.apiKey = IF "apiKey" \in DOMAIN s THEN s.apiKey ELSE @,
        !.dumplingApiKey =
            IF "dumplingApiKey" \in DOMAIN s THEN s.dumplingApiKey ELSE @,
        !.dumplingApiUrl =
            IF "dumplingApiUrl" \in DOMAIN s
            THEN (IF s.dumplingApiUrl # "" THEN s.dumplingApiUrl
                  ELSE "https://dumpling")
            ELSE @,
        !.modelName = IF "modelName" \in DOMAIN s THEN s.modelName ELSE @,
        !.systemPrompt =
            IF "systemPrompt" \in DOMAIN s THEN s.systemPrompt ELSE @,
        !.sidebarWidth =
            IF "sidebarWidth" \in DOMAIN s THEN Digits(s.sidebarWidth) ELSE @,
        !.fontSize = IF "fontSize" \in DOMAIN s THEN Digits(s.fontSize) ELSE @,
        !.temperature =
            IF "temperature" \in DOMAIN s
            THEN TenthsString(s.temperature) ELSE @]

\* requestBody and the fetch of performSummarization / performChatResponse:
\* temperature: settings.temperature || 0.3, the URL
\* `${settings.baseUrl}/chat/completions` and the Authorization header
\* `Bearer ${settings.apiKey || settings.dumplingApiKey}`.
requestBody(s) ==
    [built |-> TRUE, url |-> <<s.baseUrl, "/chat/completions">>,
     bearer |-> IF s.apiKey # "" THEN s.apiKey ELSE s.dumplingApiKey,
     model |-> s.modelName,
     temperature |-> IF s.temperature # 0 THEN s.temperature ELSE 3]

InitSettings ==
    /\ kind = "sidebar"
    /\ stream = <<>>
    /\ pos = 0
    /\ rs = "open"
    /\ fragmented = FALSE
    /\ st = SidebarStart
    /\ isVisible = FALSE
    /\ storage = EmptyStore
    /\ chatMessages = <<>>
    /\ turns = <<>>
    /\ settings = NoSettings
    /\ isGenerating = FALSE
    /\ currentConversation = <<>>
    /\ chatDom = <<>>
    /\ chatTurns = <<>>
    /\ PageStart
    /\ FormIdle
    /\ PdfIdle
    /\ BackgroundIdle

\* The user fills in the form.  The form is filled in before the first
\* save; what later saves store is what a load has put in the form.
EditForm ==
    /\ DOMAIN storage = {}
    /\ form' \in FormValues
    /\ UNCHANGED <<sent, storage>>
    /\ UNCHANGED <<isVisible, chatMessages, turns>>
    /\ UNCHANGED <<streamVars, pageVars, chatVars, pdfVars, backgroundVars>>

\* The Save Settings button: saveSettings() up to chrome.storage.sync.set
\* (applySettings in between sets the width and the font size of the
\* sidebar, which the model does not hold).
SaveForm ==
    /\ storage' = StorageSet(saveSettings(form))
    /\ UNCHANGED <<form, sent>>
    /\ UNCHANGED <<isVisible, chatMessages, turns>>
    /\ UNCHANGED <<streamVars, pageVars, chatVars, pdfVars, backgroundVars>>

\* The page is loaded again and the sidebar injected: the form is the
\* markup's again.
ReloadPage ==
    /\ form' = HtmlForm
    /\ UNCHANGED <<sent, storage>>
    /\ UNCHANGED <<isVisible, chatMessages, turns>>
    /\ UNCHANGED <<streamVars, pageVars, chatVars, pdfVars, backgroundVars>>

\* loadCurrentSettings(): the Settings tab is opened.
LoadCurrentSettings ==
    /\ form' = loadSettingsIntoForm(form, StorageGet(FormDefaults))
    /\ UNCHANGED <<sent, storage>>
    /\ UNCHANGED <<isVisible, chatMessages, turns>>
    /\ UNCHANGED <<streamVars, pageVars, chatVars, pdfVars, backgroundVars>>

\* summarizePage() / sendMessage() from chrome.storage.sync.get to the
\* fetch: nothing is sent when both keys are empty.
SendRequest ==
    /\ sent' = LET s == StorageGet(RequestDefaults)
               IN  IF ConfigMissing(s) THEN sent ELSE requestBody(s)
    /\ UNCHANGED <<form, storage>>
    /\ UNCHANGED <<isVisible, chatMessages, turns>>
    /\ UNCHANGED <<streamVars, pageVars, chatVars, pdfVars, backgroundVars>>

NextSettings ==
    \/ EditForm
    \/ SaveForm
    \/ ReloadPage
    \/ LoadCurrentSettings
    \/ SendRequest

SpecSettings == InitSettings /\ [][NextSettings]_vars

(***************************************************************************)
(* PDFHandler.convertPDFToMarkdown, in src/content.js (the conversion is    *)
(* done by the background script) and in src/utils/api-client.js (the       *)
(* class downloads and converts itself)                                     *)
(***************************************************************************)
\* 30 * 60 * 1000 ms, in steps of ten minutes.
CacheTicks == 3

\* What the conversion service answers with: JSON with results[0].markdown
\* "md", JSON without results, or text that is not JSON.
ResultTexts == {"{md}", "{}", "plain"}

\* JSON.parse(resultText), and { results: [{ markdown: resultText }] } when
\* that throws.
ParseResult(resultText) ==
    [type |-> "object",
     text |-> IF resultText = "{md}" THEN "md"
              ELSE IF resultText = "{}" THEN "" ELSE resultText]

\* result.results && result.results[0] && result.results[0].markdown
\*     ? result.results[0].markdown : resultText
MarkdownContent(resultText) ==
    LET result == ParseResult(resultText)
    IN  [type |-> "string",
         text |-> IF result.text # "" THEN result.text ELSE resultText]

\* What this.pdfCache.set stores as `result`: response.markdown in
\* content.js, the parsed object in api-client.js.
CachedResult(resultText) ==
    IF pdfHandler = "content" THEN MarkdownContent(resultText)
    ELSE ParseResult(resultText)

InitPdf ==
    /\ kind = "sidebar"
    /\ stream = <<>>
    /\ pos = 0
    /\ rs = "open"
    /\ fragmented = FALSE
    /\ st = SidebarStart
    /\ isVisible = FALSE
    /\ storage = DefaultSettings
    /\ chatMessages = <<>>
    /\ turns = <<>>
    /\ settings = NoSettings
    /\ isGenerating = FALSE
    /\ currentConversation = <<>>
    /\ chatDom = <<>>
    /\ chatTurns = <<>>
    /\ PageStart
    /\ FormIdle
    /\ pdfHandler \in {"content", "api-client"}
    /\ pdfCache = NoCache
    /\ now = 0
    /\ pdfCalls = <<>>
    /\ BackgroundIdle

\* The calls that have returned or thrown.
PdfSettled == {k \in 1..Len(pdfCalls) : pdfCalls[k].pc # "converting"}

\* convertPDFToMarkdown(pdfUrl, pdf2markdownUrl) up to its first await: the
\* cached result is returned when the entry is younger than 30 minutes, else
\* the conversion is asked for (the message to the background script, or
\* the download).
PdfCall(pdfUrl, pdf2markdownUrl) ==
    /\ Len(pdfCalls) < MaxCalls
    /\ LET cached == pdfCache[CacheKey(pdfUrl, pdf2markdownUrl)]
           call == [pdfUrl |-> pdfUrl, pdf2markdownUrl |-> pdf2markdownUrl,
                    after |-> PdfSettled, started |-> now]
       IN  pdfCalls' = Append(pdfCalls,
               IF cached.has /\ now - cached.timestamp < CacheTicks
               THEN call @@ [pc |-> "returned", requests |-> 0,
                             value |-> cached.result]
               ELSE call @@ [pc |-> "converting", requests |-> 1,
                             value |-> NoValue])
    /\ UNCHANGED <<pdfHandler, pdfCache, now>>
    /\ UNCHANGED <<streamVars, sidebarVars, pageVars, chatVars, formVars,
                   backgroundVars>>

\* The conversion succeeds with resultText: the result is cached with
\* Date.now() and the markdown is returned.
PdfConverted(i, resultText) ==
    /\ pdfCalls[i].pc = "converting"
    /\ pdfCache' =
           [pdfCache EXCEPT
               ![CacheKey(pdfCalls[i].pdfUrl, pdfCalls[i].pdf2markdownUrl)] =
                   [has |-> TRUE, result |-> CachedResult(resultText),
                    timestamp |-> now]]
    /\ pdfCalls' = [pdfCalls EXCEPT ![i].pc = "returned",
                                    ![i].value = MarkdownContent(resultText)]
    /\ UNCHANGED <<pdfHandler, now>>
    /\ UNCHANGED <<streamVars, sidebarVars, pageVars, chatVars, formVars,
                   backgroundVars>>

\* The download or the conversion fails (a rejected fetch, a status that is
\* not ok, a response without success): the catch block throws.
PdfFailed(i) ==
    /\ pdfCalls[i].pc = "converting"
    /\ pdfCalls' = [pdfCalls EXCEPT ![i].pc = "thrown"]
    /\ UNCHANGED <<pdfHandler, pdfCache, now>>
    /\ UNCHANGED <<streamVars, sidebarVars, pageVars, chatVars, formVars,
                   backgroundVars>>

\* Ten minutes pass.
Tick ==
    /\ now < MaxClock
    /\ now' = now + 1
    /\ UNCHANGED <<pdfHandler, pdfCache, pdfCalls>>
    /\ UNCHANGED <<streamVars, sidebarVars, pageVars, chatVars, formVars,
                   backgroundVars>>

NextPdf ==
    \/ \E u \in PdfUrls, m \in Pdf2MarkdownUrls : PdfCall(u, m)
    \/ \E i \in 1..Len(pdfCalls), resultText \in ResultTexts :
          PdfConverted(i, resultText)
    \/ \E i \in 1..Len(pdfCalls) : PdfFailed(i)
    \/ Tick

SpecPdf == InitPdf /\ [][NextPdf]_vars

(***************************************************************************)
(* BackgroundService.handleMessage                                          *)
(***************************************************************************)
\* The cases of the switch, and a type that none of them names.
MessageTypes ==
    {"TOGGLE_SIDEBAR", "GET_SETTINGS", "SAVE_SETTINGS", "INJECT_SIDEBAR",
     "FETCH_YOUTUBE_TRANSCRIPT", "CONVERT_PDF_TO_MARKDOWN", "UNKNOWN"}

InitBackground ==
    /\ kind = "sidebar"
    /\ stream = <<>>
    /\ pos = 0
    /\ rs = "open"
    /\ fragmented = FALSE
    /\ st = SidebarStart
    /\ isVisible = FALSE
    /\ storage = DefaultSettings
    /\ chatMessages = <<>>
    /\ turns = <<>>
    /\ settings = NoSettings
    /\ isGenerating = FALSE
    /\ currentConversation = <<>>
    /\ chatDom = <<>>
    /\ chatTurns = <<>>
    /\ PageStart
    /\ FormIdle
    /\ PdfIdle
    /\ received = <<>>

\* sendResponse(...) was called and the handler has nothing more to do.
Responded(m) == [m EXCEPT !.pc = "done", !.responses = @ + 1]

\* handleMessage(message, sender, sendResponse) up to its first await or
\* callback.  INJECT_SIDEBAR reads sender.tab.id: without a tab that is a
\* TypeError, which rejects the promise of handleMessage.
HandleMessage(type, hasTab) ==
    /\ Len(received) < MaxMessages
    /\ LET m == [type |-> type, hasTab |-> hasTab, pc |-> "start",
                 responses |-> 0]
       IN  received' = Append(received,
               IF type \in {"TOGGLE_SIDEBAR", "UNKNOWN"} THEN Responded(m)
               ELSE IF type = "INJECT_SIDEBAR"
                    THEN [m EXCEPT !.pc = IF hasTab THEN "scripting"
                                          ELSE "threw"]
               ELSE IF type = "CONVERT_PDF_TO_MARKDOWN"
                    THEN [m EXCEPT !.pc = "download"]
               ELSE [m EXCEPT !.pc = "storage"])
    /\ UNCHANGED <<streamVars, sidebarVars, pageVars, chatVars, formVars,
                   pdfVars>>

\* chrome.storage.sync.get / set settles: getSettings and saveSettings
\* answer in the try block or in the catch block; fetchYouTubeTranscript
\* answers when the call failed or no DumplingAI key is stored, and else
\* goes on to the fetch.
StorageSettles(i, ok, hasKey) ==
    /\ received[i].pc = "storage"
    /\ received' =
           [received EXCEPT ![i] =
               IF @.type = "FETCH_YOUTUBE_TRANSCRIPT" /\ ok /\ hasKey
               THEN [@ EXCEPT !.pc = "fetch"]
               ELSE Responded(@)]
    /\ UNCHANGED <<streamVars, sidebarVars, pageVars, chatVars, formVars,
                   pdfVars>>

\* The callback of chrome.scripting.executeScript in injectSidebar: it
\* answers with or without chrome.runtime.lastError.
ScriptingSettles(i) ==
    /\ received[i].pc = "scripting"
    /\ received' = [received EXCEPT ![i] = Responded(@)]
    /\ UNCHANGED <<streamVars, sidebarVars, pageVars, chatVars, formVars,
                   pdfVars>>

\* A fetch settles, of the transcript, of the PDF or of the conversion: it
\* rejects, or it resolves with response.ok false ("not ok") or true.  A
\* rejection is answered by the catch block; so is a status that is not ok
\* in convertPDFToMarkdown, while fetchYouTubeTranscript reads the error
\* body first.
FetchSettles(i, outcome) ==
    /\ received[i].pc \in {"fetch", "download", "convert"}
    /\ received' =
           [received EXCEPT ![i] =
               IF outcome = "rejected" THEN Responded(@)
               ELSE IF @.pc = "fetch" THEN [@ EXCEPT !.pc = "body"]
               ELSE IF outcome = "not ok" THEN Responded(@)
               ELSE IF @.pc = "download" THEN [@ EXCEPT !.pc = "blob"]
               ELSE [@ EXCEPT !.pc = "text"]]
    /\ UNCHANGED <<streamVars, sidebarVars, pageVars, chatVars, formVars,
                   pdfVars>>

\* response.text(), response.json() or pdfResponse.blob() settles: the
\* blob leads on to the conversion request, the others to the answer; a
\* rejection is answered by the catch block.
BodySettles(i, ok) ==
    /\ received[i].pc \in {"body", "blob", "text"}
    /\ received' =
           [received EXCEPT ![i] =
               IF @.pc = "blob" /\ ok THEN [@ EXCEPT !.pc = "convert"]
               ELSE Responded(@)]
    /\ UNCHANGED <<streamVars, sidebarVars, pageVars, chatVars, formVars,
                   pdfVars>>

NextBackground ==
    \/ \E type \in MessageTypes, hasTab \in BOOLEAN :
          HandleMessage(type, hasTab)
    \/ \E i \in 1..Len(received), ok \in BOOLEAN, hasKey \in BOOLEAN :
          StorageSettles(i, ok, hasKey)
    \/ \E i \in 1..Len(received) : ScriptingSettles(i)
    \/ \E i \in 1..Len(received), outcome \in {"rejected", "not ok", "ok"} :
          FetchSettles(i, outcome)
    \/ \E i \in 1..Len(received), ok \in BOOLEAN : BodySettles(i, ok)

SpecBackground == InitBackground /\ [][NextBackground]_vars

(***************************************************************************)
(* Properties of one streaming response                                     *)
(***************************************************************************)
\* What has been handed out so far, decoded in one piece, and its lines.
Delivered == DecodeBytes(<<>>, SubSeq(stream, 1, pos)).out
DeliveredLines == Split(Delivered)

IsDoneLine(line) == StartsWithData(line) /\ IsDoneSentinel(Payload(line))
IsFrameLine(line) == StartsWithData(line) /\ JSONValid(Payload(line))
IsMalformedLine(line) ==
    StartsWithData(line) /\ ~IsDoneSentinel(Payload(line))
                         /\ ~JSONValid(Payload(line))
FrameDelta(line) == DeltaContent(Payload(line))

HasLine(lines, P(_)) == \E i \in 1..Len(lines) : P(lines[i])

RECURSIVE Deltas(_)
Deltas(lines) ==
    IF lines = <<>> THEN <<>>
    ELSE (IF IsFrameLine(Head(lines)) THEN <<FrameDelta(Head(lines))>>
          ELSE <<>>) \o Deltas(Tail(lines))

LastEvent == st.events[Len(st.events)]

IsContentEvent(e) == e.type = "content"
IsErrorEvent(e) == e.type = "error"

\* C1: SidebarManager's loop is chunk-boundary independent: when the loop
\* has ended (by the sentinel or by the close of the body), fullContent is
\* what the loop accumulates when the whole body arrives as one fragment.
C1_ChunkBoundaryIndependence ==
    (kind = "sidebar" /\ st.status \in {"returned", "finalized"})
        => st.fullContent = SidebarRead(SidebarStart, stream).fullContent

\* A body with content that was cut inside a line and read to its end.
C1_Witness ==
    /\ kind = "sidebar"
    /\ st.status = "finalized"
    /\ fragmented
    /\ st.fullContent = <<"a", "e'">>

\* C2: in SidebarManager, once a `data: [DONE]` line was received the AI
\* message is rendered from fullContent with no streaming cursor and without
\* the 'streaming' class.
C2_DoneFinalizes ==
    (kind = "sidebar" /\ st.doneSeen)
        => st.aiMsg = [src |-> st.fullContent, cursor |-> FALSE,
                       streaming |-> FALSE, error |-> FALSE]

\* C6: once the consumer has seen the sentinel, or its stream has closed or
\* failed, nothing more is decoded: the accumulated text, the renders and
\* the content events stay as they are.
C6_NothingAfterTerminal ==
    [][ (st.doneSeen \/ st.status # "streaming")
           => /\ st'.fullContent = st.fullContent
              /\ st'.renders = st.renders
              /\ SelectSeq(st'.events, IsContentEvent)
                     = SelectSeq(st.events, IsContentEvent) ]_vars

\* C7: a body that closes without a sentinel line ends the turn as a normal
\* completion with the text accumulated so far: SidebarManager renders the
\* final text without cursor, ChatComponent commits the assistant message,
\* APIClient yields 'done', and no error is reported.
C7_CloseCompletes ==
    rs = "closed" =>
        /\ st.errors = <<>>
        /\ ~st.aiMsg.error
        /\ ~HasLine(st.events, IsErrorEvent)
        /\ kind = "sidebar" =>
              /\ st.status = "finalized"
              /\ st.aiMsg = [src |-> st.fullContent, cursor |-> FALSE,
                             streaming |-> FALSE, error |-> FALSE]
        /\ kind = "chat" =>
              /\ st.status = "committed"
              /\ st.conversation =
                     <<[role |-> "assistant", content |-> st.fullContent]>>
        /\ kind = "api" =>
              /\ st.status = "done"
              /\ LastEvent = [type |-> "done", fullContent |-> st.fullContent]

\* A body with content and no sentinel line has closed.
C7_Witness ==
    /\ rs = "closed"
    /\ ~HasLine(Split(stream), IsDoneLine)
    /\ st.fullContent # <<>>

\* C9: when read() fails after some text was accumulated, the outcome
\* reports the error detail and keeps the partial text: SidebarManager
\* leaves the partial AI message in the chat, ChatComponent leaves the
\* partial AI message as it is, APIClient's 'error' event carries the text.
C9_FailureKeepsPartialText ==
    (rs = "errored" /\ st.fullContent # <<>>) =>
        /\ kind = "sidebar" =>
              /\ st.aiMsg.src = st.fullContent
              /\ \E i \in 1..Len(st.errors) : st.errors[i].detail = ReadError
        /\ kind = "chat" =>
              /\ st.aiMsg.src = st.fullContent
              /\ ~st.aiMsg.error
        /\ kind = "api" =>
              /\ IsErrorEvent(LastEvent)
              /\ LastEvent.error = ReadError
              /\ "fullContent" \in DOMAIN LastEvent
              /\ LastEvent.fullContent = st.fullContent

\* The lines one read step decodes, from the state before the step: what
\* the split yields of the decoded fragment, up to the sentinel line for the
\* consumers that stop at it.
RECURSIVE UpToDone(_)
UpToDone(lines) ==
    IF lines = <<>> \/ IsDoneLine(Head(lines)) THEN <<>>
    ELSE <<Head(lines)>> \o UpToDone(Tail(lines))

StepLines(chunk) ==
    IF kind = "sidebar" THEN UpToDone(AllButLast(Split(st.buffer \o chunk)))
    ELSE IF kind = "api" THEN UpToDone(Split(chunk))
    ELSE Split(chunk)

\* The deltas of the frames among them that the consumer appends.
Appends(d) == kind = "sidebar" \/ d # <<>>
StepDeltas(chunk) == SelectSeq(Deltas(StepLines(chunk)), Appends)

\* The lines the split yields in a step, the sentinel line and what follows
\* it included.
SplitLines(chunk) ==
    IF kind = "sidebar" THEN AllButLast(Split(st.buffer \o chunk))
    ELSE Split(chunk)

\* C8: a `data:` line whose payload is not valid JSON is skipped silently.
\* In every read step in which the consumer comes to such a line, no error
\* is reported, the stream is not ended by it (the consumer stays in its
\* loop unless the sentinel is among the lines), and the text grows by
\* exactly the deltas of the well-formed frames around it, in their order.
C8_MalformedSkipped ==
    [][ pos' > pos =>
           \A chunk \in {DecodeBytes(st.pending,
                                     SubSeq(stream, pos + 1, pos')).out} :
           \A lines \in {StepLines(chunk)} :
              HasLine(lines, IsMalformedLine) =>
                 /\ st'.fullContent =
                        st.fullContent \o Concat(SelectSeq(Deltas(lines), Appends))
                 /\ st'.errors = <<>>
                 /\ ~st'.aiMsg.error
                 /\ ~HasLine(st'.events, IsErrorEvent)
                 /\ \/ st'.status = "streaming"
                    \/ /\ HasLine(SplitLines(chunk), IsDoneLine)
                       /\ st'.status \in {"returned", "done"}
      ]_vars

\* A malformed line between two content frames has been consumed.
C8_Witness ==
    /\ stream = Body(<<ContentLineA, MalformedLine, ContentLineE>>, TRUE)
    /\ pos = Len(stream)
    /\ rs = "open"
    /\ st.status = "streaming"
    /\ st.fullContent = <<"a", "e'">>

\* The text after each of the deltas, starting from `base`.
RECURSIVE RunningText(_, _)
RunningText(base, ds) ==
    IF ds = <<>> THEN <<>>
    ELSE <<base \o Head(ds)>> \o RunningText(base \o Head(ds), Tail(ds))

EventText(e) == e.fullContent
RECURSIVE MapEventText(_)
MapEventText(es) ==
    IF es = <<>> THEN <<>> ELSE <<EventText(Head(es))>> \o MapEventText(Tail(es))

\* What the consumer has shown so far: the text of each render, or of each
\* 'content' event.
Shown(s) ==
    IF kind = "api" THEN MapEventText(SelectSeq(s.events, IsContentEvent))
    ELSE s.renders

C17_PartialLineKept ==
    /\ (kind = "chat" /\ st.status = "committed")
          => st.fullContent = ChatRead(ChatStart, stream).fullContent
    /\ (kind = "api" /\ st.status = "done")
          => st.fullContent = ApiRead(ApiStart, stream).fullContent

NonEmpty(d) == d # <<>>

\* C19: a well-formed frame with no non-empty content at
\* choices[0].delta.content emits nothing.  In every read step the consumer
\* shows (renders, or yields as a content event) one text per frame with a
\* non-empty delta among the lines it handles, and none for the others; the
\* text grows by the non-empty deltas alone and no error is raised.
C19_EmptyDeltaEmitsNothing ==
    [][ pos' > pos =>
           \A chunk \in {DecodeBytes(st.pending,
                                     SubSeq(stream, pos + 1, pos')).out} :
           \A ds \in {SelectSeq(Deltas(StepLines(chunk)), NonEmpty)} :
              /\ Len(Shown(st')) - Len(Shown(st)) = Len(ds)
              /\ st'.fullContent = st.fullContent \o Concat(ds)
              /\ st'.errors = st.errors
      ]_vars

\* The payload is the sentinel once the white space at its end is trimmed.
IsPaddedDoneLine(line) ==
    StartsWithData(line) /\ TrimEnd(Payload(line)) = <<"[DONE]">>

\* C18: a data payload that equals `[DONE]` after trimming (a carriage
\* return or a space follows the sentinel) is the stream terminator for
\* SidebarManager's loop and for APIClient: once such a line has reached
\* the consumer whole, the consumer has taken its sentinel branch.
C18_PaddedSentinelTerminates ==
    ( /\ kind \in {"sidebar", "api"}
      /\ ~fragmented
      /\ HasLine(AllButLast(DeliveredLines), IsPaddedDoneLine) )
        => st.doneSeen

\* C23: a character whose two bytes arrive in two fragments is decoded to
\* the one character in the accumulated text, in every consumer.  The read
\* before ended on the lead byte; this fragment starts with the continuation
\* byte and the rest of the frame's line, and no sentinel has come: the
\* text grows, and the character is the first thing added.
C23_SplitCharacterDecoded ==
    [][ (pos' > pos /\ st.pending = <<"E1">>
           /\ IsPrefix(<<"E2", "}", "NL">>, SubSeq(stream, pos + 1, pos'))
           /\ ~HasLine(DeliveredLines, IsDoneLine))
        => /\ Len(st'.fullContent) > Len(st.fullContent)
           /\ st'.fullContent[Len(st.fullContent) + 1] = "e'"
      ]_vars

\* C25: when the body closes, the finalized text of SidebarManager's loop
\* holds the delta of every well-formed `data:` line received, the last line
\* included when the body ended without a line feed after it.
C25_LastLineDecodedAtClose ==
    (kind = "sidebar" /\ st.status = "finalized"
                      /\ ~HasLine(DeliveredLines, IsDoneLine))
        => st.fullContent = Concat(Deltas(DeliveredLines))

\* C26: APIClient's iterator yields 'content' events and then exactly one
\* terminal event, 'done' or 'error', and nothing after it; the fullContent
\* of a 'content' event is that of the event before it plus its own content,
\* and the fullContent of 'done' is that of the last 'content' event, or
\* empty when there was none.
IsTerminalEvent(e) == e.type \in {"done", "error"}

TextBefore(i) == IF i = 1 THEN <<>> ELSE st.events[i - 1].fullContent

C26_EventSequence ==
    kind = "api" =>
        LET n == Len(st.events)
        IN  /\ \A i \in 1..n : IsTerminalEvent(st.events[i]) => i = n
            /\ (st.status # "streaming")
                  <=> (n >= 1 /\ IsTerminalEvent(st.events[n]))
            /\ \A i \in 1..n :
                  st.events[i].type = "content" =>
                      st.events[i].fullContent
                          = TextBefore(i) \o st.events[i].content
            /\ \A i \in 1..n :
                  st.events[i].type = "done" =>
                      st.events[i].fullContent = TextBefore(i)

\* Two 'content' events were yielded, then 'done'.
C26_Witness ==
    /\ kind = "api"
    /\ Len(st.events) = 3
    /\ st.events[1].type = "content"
    /\ st.events[2].type = "content"
    /\ st.events[3].type = "done"

(***************************************************************************)
(* Properties of SidebarManager's turns                                     *)
(***************************************************************************)
\* C3: a turn started while an earlier one is in flight is rejected, or the
\* earlier one is discarded first: once a later turn has started, no render
\* or finalize step of an earlier turn writes to its AI message.
C3_NoInterleavedTurns ==
    [][ \A t \in 1..Len(turns) :
           t < Len(turns') => turns'[t].s.aiMsg = turns[t].s.aiMsg ]_vars

\* The stream of turn t is in mid-flight and was abandoned: the sidebar is
\* hidden, or the chat was cleared under it (by clearChat or by a
\* summarizePage that started a new turn).
Abandoned(t) ==
    /\ turns[t].pc = "streaming"
    /\ ~isVisible \/ ~InChat(Ref(t, "ai"))

\* C5: abandoning a stream in mid-flight releases its reader, and no further
\* render or finalize step of the abandoned stream runs.
C5_AbandonReleasesAndSilences ==
    [][ \A t \in 1..Len(turns) :
           Abandoned(t)
               => /\ turns[t].reader # "locked"
                  /\ turns'[t].s.aiMsg = turns[t].s.aiMsg ]_vars

\* C11: a turn whose settings have an empty apiKey or an empty baseUrl
\* issues no network request, whatever the other settings
\* (dumplingApiKey included).  For SidebarManager: no turn has called
\* fetch() with settings whose apiKey or baseUrl is empty.
C11_NoRequestWithoutConfig ==
    \A t \in 1..Len(turns) :
        turns[t].requested =>
            /\ turns[t].cfg.apiKey # ""
            /\ turns[t].cfg.baseUrl # ""

\* C14: summarizePage resets the conversation: once a summarize turn has
\* started, the chat holds no message of an earlier turn.  For
\* SidebarManager: every user or AI message in the chat area belongs to the
\* latest summarize turn or to a turn started after it.
C14_SummarizeResetsChat ==
    \A t \in 1..Len(turns) :
       turns[t].op = "summarize" =>
          \A i \in 1..Len(chatMessages) :
             chatMessages[i].cls \in {"user", "ai"} =>
                chatMessages[i].turn >= t

\* The message has this part.
Carries(message, part) == \E i \in 1..Len(message) : message[i] = part

\* C20: when the chat-completions response has a non-success status, the
\* request fails with an error that carries both the HTTP status and the
\* response body, and no stream is read.  For SidebarManager: the turn has
\* ended without a reader and without a read, and the one error it shows
\* has the status and the body of the response.
C20_HttpErrorCarriesStatusAndBody ==
    \A t \in 1..Len(turns) :
       turns[t].response # NoResponse =>
          /\ turns[t].pc = "end"
          /\ turns[t].reader = "none"
          /\ turns[t].reads = 0
          /\ Len(turns[t].s.errors) = 1
          /\ Carries(turns[t].s.errors[1].detail, turns[t].response.status)
          /\ Carries(turns[t].s.errors[1].detail, turns[t].response.body)

\* C30: isVisible is true exactly when the container has the class 'open'
\* and the overlay is displayed; toggleSidebar flips isVisible; the close
\* button and a click on the overlay leave isVisible false; and document.body
\* is given at most one container and one overlay.
VisibleInPage ==
    /\ sidebarContainer.created
    /\ sidebarContainer.open
    /\ overlay.created
    /\ overlay.display = "block"

HiddenInPage ==
    /\ ~sidebarContainer.open
    /\ overlay.display = "none"

C30_VisibilityMatchesPage ==
    /\ [](IF isVisible THEN VisibleInPage ELSE HiddenInPage)
    /\ [](appended.containers <= 1 /\ appended.overlays <= 1)
    /\ [][ToggleSidebar => (isVisible' = ~isVisible)]_vars
    /\ [][HideSidebar => ~isVisible']_vars

\* The sidebar was shown, hidden and shown again, and INJECT_SIDEBAR came
\* after the container existed: a second turn runs in a visible sidebar.
C30_Witness ==
    /\ isVisible
    /\ VisibleInPage
    /\ appended.containers = 1
    /\ Len(turns) = 2

(***************************************************************************)
(* Properties of SidebarManager's settings                                  *)
(***************************************************************************)
\* The settings a request is built from hold a key.
Configured == ~ConfigMissing(StorageGet(RequestDefaults))

\* C21: the temperature of a chat-completions request is the stored
\* temperature, for every value the slider can store, and the default 0.3
\* only when no temperature is stored.
C21_TemperatureAsStored ==
    [][(SendRequest /\ Configured) =>
          sent'.temperature = (IF "temperature" \in DOMAIN storage
                               THEN storage.temperature ELSE 3)]_vars

\* C22: the DumplingAI key is never the bearer of a request to
\* {baseUrl}/chat/completions.
C22_DumplingKeyNotSentToChat ==
    (sent.built /\ "dumplingApiKey" \in DOMAIN storage
                /\ storage.dumplingApiKey # "")
        => sent.bearer # storage.dumplingApiKey

\* C29: after saveSettings every field of the form is stored, and loading
\* what was stored into the form of a page loaded anew shows the saved value
\* in each field.
C29_SettingsRoundTrip ==
    [][SaveForm =>
          /\ \A field \in FormFields : field \in DOMAIN storage'
          /\ \A loaded \in {loadSettingsIntoForm(HtmlForm, storage')} :
                loaded = form
      ]_vars

(***************************************************************************)
(* Properties of ChatComponent's turns                                      *)
(***************************************************************************)
ChatInFlight == {t \in 1..Len(chatTurns) : chatTurns[t].pc # "end"}
ChatStreaming == {t \in 1..Len(chatTurns) : chatTurns[t].pc = "streaming"}
UserMessages(children) == SelectSeq(children, LAMBDA r : r.cls = "user")

\* C4: in ChatComponent at most one turn is in flight: while isGenerating
\* is true no turn is started, no request is issued for a new turn, no user
\* message is added and only the running turn's commit or a clear changes
\* currentConversation; two streaming loops never run at once.
C4_OneTurnInFlight ==
    /\ [](/\ Cardinality(ChatInFlight) <= 1
          /\ Cardinality(ChatStreaming) <= 1
          /\ ChatInFlight # {} => isGenerating)
    /\ [][ isGenerating =>
              /\ Len(chatTurns') = Len(chatTurns)
              /\ Len(UserMessages(chatDom')) <= Len(UserMessages(chatDom))
              /\ \A t \in 1..Len(chatTurns) :
                    (chatTurns'[t].requested /\ ~chatTurns[t].requested)
                        => t \in ChatInFlight ]_vars

\* A second turn streams after the first has ended, and a third could be
\* started but for the guard.
C4_Witness ==
    /\ isGenerating
    /\ Len(chatTurns) = 2
    /\ chatTurns[1].pc = "end"
    /\ chatTurns[2].pc = "streaming"
    /\ chatTurns[2].s.fullContent # <<>>


\* Turn t ends in this step.
ChatTurnEnds(t) == chatTurns[t].pc # "end" /\ chatTurns'[t].pc = "end"

\* C12: a ChatComponent turn commits to currentConversation only on normal
\* completion.  The step in which a turn ends after its stream was read to
\* the end appends exactly one assistant message whose content is the
\* turn's accumulated text; the step in which a turn ends in any other way
\* (configuration error, extraction or fetch failure, HTTP error, read
\* error) leaves currentConversation as it is; and currentConversation
\* grows in no other step.
C12_CommitOnlyOnCompletion ==
    [][ /\ \A t \in 1..Len(chatTurns) :
              ChatTurnEnds(t) =>
                 IF chatTurns'[t].s.status = "committed"
                 THEN currentConversation' =
                          Append(currentConversation,
                                 [role |-> "assistant",
                                  content |-> chatTurns[t].s.fullContent])
                 ELSE currentConversation' = currentConversation
        /\ Len(currentConversation') > Len(currentConversation) =>
              \E t \in 1..Len(chatTurns) :
                 ChatTurnEnds(t) /\ chatTurns'[t].s.status = "committed"
      ]_vars

\* One turn has failed and another has completed with a non-empty text,
\* which is the one message of the conversation.
C12_Witness ==
    \E t, u \in 1..Len(chatTurns) :
       /\ chatTurns[t].s.status = "committed"
       /\ chatTurns[t].s.fullContent # <<>>
       /\ chatTurns[u].pc = "end"
       /\ chatTurns[u].s.status # "committed"
       /\ currentConversation =
              <<[role |-> "assistant", content |-> chatTurns[t].s.fullContent]>>

\* Turn t calls fetch() in this step.
ChatRequests(t) == ~chatTurns[t].requested /\ chatTurns'[t].requested

InChatDom(r) == \E i \in 1..Len(chatDom) : chatDom[i] = r

HasMessage(msgs, m) == \E i \in 1..Len(msgs) : msgs[i] = m

\* C13: the request of an ask carries the conversation so far.  When an
\* ask calls fetch(), the new user message is the last of the request's
\* messages, and for every earlier ask that has completed and whose user
\* message is still in the chat (no clear or summarize since), the request
\* holds that ask's user message and its assistant message.
C13_RequestCarriesConversation ==
    [][ \A t \in 1..Len(chatTurns) :
          (ChatRequests(t) /\ chatTurns[t].op = "chat") =>
             LET msgs == chatTurns'[t].request.messages
             IN  /\ msgs[Len(msgs)] =
                        [role |-> "user", content |-> UserInput(t)]
                 /\ \A u \in 1..(t - 1) :
                       ( /\ chatTurns[u].op = "chat"
                         /\ chatTurns[u].s.status = "committed"
                         /\ InChatDom(Ref(u, "user")) ) =>
                          /\ HasMessage(msgs,
                                 [role |-> "user", content |-> UserInput(u)])
                          /\ HasMessage(msgs,
                                 [role |-> "assistant",
                                  content |-> chatTurns[u].s.fullContent])
      ]_vars

\* C15: after clearChat, currentConversation stays empty until a turn
\* started after the clear commits: a stream that was in flight when the
\* chat was cleared never adds its assistant message.  The loading element
\* is put in the chat when a turn starts and is taken out only by that
\* turn's setLoading(false) or by clearChat, so a turn that ends without it
\* was in flight when the chat was cleared; such a turn leaves
\* currentConversation as the clear left it.
C15_ClearedStreamNeverCommits ==
    [][ \A t \in 1..Len(chatTurns) :
          (ChatTurnEnds(t) /\ ~InChatDom(LoadingRef)) =>
             currentConversation' = currentConversation
      ]_vars

\* C16: each turn takes its request configuration from the settings store
\* at the start of that turn.  For ChatComponent: when a turn starts with
\* settings from which it will make a request, this.settings holds the
\* endpoint and the key that the store holds, and the turn's fetch() is
\* made with this.settings.
C16_TurnReadsStore ==
    [][ /\ (Len(chatTurns') > Len(chatTurns) /\ ~ChatConfigIncomplete) =>
              /\ settings.baseUrl = storage.baseUrl
              /\ settings.apiKey = storage.apiKey
        /\ \A t \in 1..Len(chatTurns) :
              ChatRequests(t) =>
                 /\ chatTurns'[t].request.url =
                        <<settings.baseUrl, "/chat/completions">>
                 /\ chatTurns'[t].request.bearer = settings.apiKey
      ]_vars

\* C24: every turn of ChatComponent that sets isGenerating gives it up
\* again (setLoading(false) enables the two buttons with it), however the
\* turn ends, so that sendMessage is accepted again.
C24_GeneratingEnds == isGenerating ~> (~isGenerating /\ ~ChatBusy)

\* A first turn ended before its request was made (the configuration was
\* incomplete or the extraction failed), and a later sendMessage was
\* accepted and has ended too.
C24_Witness ==
    /\ Len(chatTurns) = 2
    /\ chatTurns[1].pc = "end"
    /\ ~chatTurns[1].requested
    /\ chatTurns[2].op = "chat"
    /\ chatTurns[2].pc = "end"
    /\ chatTurns[2].s.status = "committed"
    /\ ~isGenerating

(***************************************************************************)
(* Properties of PDFHandler                                                 *)
(***************************************************************************)
SameKey(i, j) ==
    /\ pdfCalls[i].pdfUrl = pdfCalls[j].pdfUrl
    /\ pdfCalls[i].pdf2markdownUrl = pdfCalls[j].pdf2markdownUrl

Converted(i) == pdfCalls[i].pc = "returned" /\ pdfCalls[i].requests = 1

\* C27: a call made within 30 minutes of a successful conversion of the
\* same (pdfUrl, pdf2markdownUrl) asks for no new download or conversion and
\* returns the value that call returned; a failed conversion leaves nothing
\* in the cache.
C27_CachedCallReturnsSame ==
    /\ \A i, j \in 1..Len(pdfCalls) :
          (/\ SameKey(i, j)
           /\ Converted(i)
           /\ i \in pdfCalls[j].after
           /\ pdfCalls[j].started - pdfCalls[i].started < CacheTicks
           /\ \A k \in 1..Len(pdfCalls) : SameKey(i, k) => k \in {i, j})
          => /\ pdfCalls[j].requests = 0
             /\ pdfCalls[j].value = pdfCalls[i].value
    /\ \A key \in CacheKeys :
          pdfCache[key].has =>
              \E i \in 1..Len(pdfCalls) :
                  /\ CacheKey(pdfCalls[i].pdfUrl,
                              pdfCalls[i].pdf2markdownUrl) = key
                  /\ Converted(i)

(***************************************************************************)
(* Properties of BackgroundService                                          *)
(***************************************************************************)
\* C28: handleMessage calls sendResponse exactly once for every message:
\* never twice, and once when the handling has ended.
C28_RespondsExactlyOnce ==
    \A i \in 1..Len(received) :
        /\ received[i].responses <= 1
        /\ received[i].pc \in {"done", "threw"} => received[i].responses = 1

=========================================================================
